---- MODULE Spec2Model ----
\* Particle cloth simulation (src/src/physics.rs) and its host loop
\* (src/src/main.rs).  f32 coordinates are modelled as integers in simulation
\* units: every product, quotient and square root is computed as the code
\* computes it and then rounded toward zero.  Indices are the code's 0-based
\* indices; node k of the code is nodes[k + 1] here.
EXTENDS Integers, Sequences, FiniteSets, TLC

VARIABLES
  status,          \* "new" before Physics::new, then "built" or "panicked"
  flag_sizes,      \* the &[FlagParams] given to Physics::new
  nodes,           \* Physics.nodes
  flags,           \* Physics.flags
  selected_nodes,  \* Physics.selected_nodes: None or a sequence of indices
  indices,         \* the value last returned by get_indices
  last_op,         \* the last call made: [name, arg, dt]
  sel_before,      \* selected_nodes as it was before the last select_nodes
  ops,             \* number of calls made so far
  mouse_pressed,   \* Stage.mouse_pressed
  mouse_pos,       \* Stage.mouse_pos
  last_mouse_pos,  \* Stage.last_mouse_pos
  can_update,      \* Stage.can_update
  quit,            \* ctx.quit() has been called
  phase,           \* "idle", or "relax" while apply_links' tasks run
  task_pc,         \* per instance: how many of its links its task has applied
  touched,         \* per instance: the node indices its task has accessed
  snapshot         \* nodes as they were when apply_links was entered

vars == <<status, flag_sizes, nodes, flags, selected_nodes, indices, last_op,
          sel_before, ops, mouse_pressed, mouse_pos, last_mouse_pos,
          can_update, quit, phase, task_pc, touched, snapshot>>

None == "None"

\* ---------------------------------------------------------------- bounds
MaxW == 4
MaxH == 3
MaxOps == 5
MaxHostOps == 4
MaxParOps == 3
BigHeight == 32767
HostWidth == 2
HostHeight == 2

\* ------------------------------------------------------- program constants
WIDTH == 1500
HEIGHT == 1500
SUB_STEPS == 10
MaxStep == 50
PickRadius == 10
HostCorner == <<100, 100>>
HostSize == 1000
HostGravity == <<200, 50>>
HostDt == <<1, 600>>
\* usize::MAX, cut to the largest integer TLC represents; it is only
\* ever compared with the length of a slice
UsizeMax == 2147483647

\* ------------------------------------------------------------- arithmetic
Min(a, b) == IF a <= b THEN a ELSE b

\* f32 division, rounded toward zero (b > 0)
TDiv(a, b) == IF a >= 0 THEN a \div b ELSE -((-a) \div b)

RECURSIVE SqrtSearch(_, _, _)
SqrtSearch(n, lo, hi) ==
  IF lo >= hi THEN lo
  ELSE LET mid == (lo + hi + 1) \div 2
       IN IF mid * mid <= n THEN SqrtSearch(n, mid, hi)
                            ELSE SqrtSearch(n, lo, mid - 1)

\* f32::sqrt, rounded toward zero
Sqrt(n) == SqrtSearch(n, 0, Min(n, 46340))

VAdd(a, b) == <<a[1] + b[1], a[2] + b[2]>>
VSub(a, b) == <<a[1] - b[1], a[2] - b[2]>>
VScale(a, k) == <<a[1] * k, a[2] * k>>
LengthSquared(a) == a[1] * a[1] + a[2] * a[2]
Length(a) == Sqrt(LengthSquared(a))
Distance(a, b) == Length(VSub(a, b))
DistanceSquared(a, b) == LengthSquared(VSub(a, b))

\* Vec2::clamp_length_max
ClampLengthMax(v, max) ==
  IF LengthSquared(v) > max * max
  THEN <<TDiv(max * v[1], Length(v)), TDiv(max * v[2], Length(v))>>
  ELSE v

\* usize as i16: the low 16 bits, two's complement
AsI16(n) == LET m == n % 65536 IN IF m >= 32768 THEN m - 65536 ELSE m

\* ------------------------------------------------------------ construction
Node(pos, last_pos, pinned) == [pos |-> pos, last_pos |-> last_pos, pinned |-> pinned]

FlagParams(corner, size, width, height) ==
  [corner |-> corner, size |-> size, width |-> width, height |-> height]

\* Flag::new, the loop filling the instance's slice of nodes
GridNodes(corner, size, width, height) ==
  [i \in 1..(width * height) |->
     LET x == (i - 1) % width
         y == (i - 1) \div width
         p == VAdd(VScale(<<x, y>>, TDiv(size, width)), corner)
     IN Node(p, p, x = 0 /\ (y = 0 \/ y = height - 1))]

\* `n - 1` on usize: wraps when overflow checks are off
WrappingSubOne(n) == IF n = 0 THEN UsizeMax ELSE n - 1

\* the horizontal links with the second index taken from the next row
DiagonalPairs(width, height, hx) ==
  [k \in 1..(height * hx) |->
     LET y == (k - 1) \div hx
         x == (k - 1) % hx
     IN <<x + y * width, x + 1 + ((y + 1) % height) * width>>]

\* the index pairs of the horizontal links, in the order the iterator yields
\* them; hx is the bound of the inner range 0..(width - 1)
HorizontalPairs(width, height, hx) ==
  [k \in 1..(height * hx) |->
     LET y == (k - 1) \div hx
         x == (k - 1) % hx
     IN <<x + y * width, x + 1 + y * width>>]

\* the index pairs of the vertical links; hy is the bound of 0..(height - 1)
VerticalPairs(width, height, hy) ==
  [k \in 1..(width * hy) |->
     LET x == (k - 1) \div hy
         y == (k - 1) % hy
     IN <<x + y * width, x + (y + 1) * width>>]

\* Link::new
LinkNew(ns, node1, node2) ==
  [node1 |-> node1, node2 |-> node2,
   resting_distance |-> Distance(ns[node1 + 1].pos, ns[node2 + 1].pos)]

\* Flag::new panics: `width - 1` or `height - 1` underflows with overflow checks
\* on, or Link::new indexes the slice out of bounds.  A wrapped range is
\* followed only as far as its first out-of-bounds index, which comes within
\* the first len + 1 items.
FlagNewPanics(width, height, overflow_checks) ==
  LET len == width * height
      hx == Min(WrappingSubOne(width), len + 1)
      hy == Min(WrappingSubOne(height), len + 1)
      hp == HorizontalPairs(width, height, hx)
      vp == VerticalPairs(width, height, hy)
  IN \/ overflow_checks /\ height > 0 /\ width = 0
     \/ overflow_checks /\ width > 0 /\ height = 0
     \/ \E k \in DOMAIN hp : hp[k][1] >= len \/ hp[k][2] >= len
     \/ \E k \in DOMAIN vp : vp[k][1] >= len \/ vp[k][2] >= len

\* Flag::new, the k-th index pair of the chained iterator
PairAt(width, height, k) ==
  LET hx == WrappingSubOne(width)
      hy == WrappingSubOne(height)
  IN IF k <= height * hx
     THEN HorizontalPairs(width, height, hx)[k]
     ELSE VerticalPairs(width, height, hy)[k - height * hx]

\* Flag::new when it does not panic
FlagNew(ns, node_offset, width, height) ==
  LET count == height * WrappingSubOne(width) + width * WrappingSubOne(height)
  IN [width |-> width, height |-> height,
      links |->
        [k \in 1..count |->
           LinkNew(ns, PairAt(width, height, k)[1], PairAt(width, height, k)[2])],
      offset_links |->
        [k \in 1..count |->
           [node1 |-> PairAt(width, height, k)[1] + node_offset,
            node2 |-> PairAt(width, height, k)[2] + node_offset,
            resting_distance |->
              LinkNew(ns, PairAt(width, height, k)[1],
                      PairAt(width, height, k)[2]).resting_distance]]]

RECURSIVE SumCounts(_, _)
SumCounts(fs, k) ==
  IF k = 0 THEN 0 ELSE SumCounts(fs, k - 1) + fs[k].width * fs[k].height

\* Physics::new, the scan giving each instance its offset
Offsets(fs) == [k \in DOMAIN fs |-> SumCounts(fs, k - 1)]

RECURSIVE ConcatNodes(_, _)
ConcatNodes(fs, k) ==
  IF k = 0 THEN <<>>
  ELSE ConcatNodes(fs, k - 1)
       \o GridNodes(fs[k].corner, fs[k].size, fs[k].width, fs[k].height)

\* Physics::new, the map over the instances and their offsets
BuiltFlags(fs) ==
  [k \in DOMAIN fs |->
     FlagNew(GridNodes(fs[k].corner, fs[k].size, fs[k].width, fs[k].height),
             Offsets(fs)[k], fs[k].width, fs[k].height)]

\* Physics::new: the simulation, or a panic
PhysicsNew(fs, overflow_checks) ==
  IF \E k \in DOMAIN fs : FlagNewPanics(fs[k].width, fs[k].height, overflow_checks)
  THEN [status |-> "panicked", nodes |-> <<>>, flags |-> <<>>]
  ELSE [status |-> "built",
        nodes |-> ConcatNodes(fs, Len(fs)),
        flags |-> BuiltFlags(fs)]

\* Physics::get_indices, the pair emitted for link j of instance k
IndexPairAt(fl, k, j) ==
  <<AsI16(fl[k].offset_links[j].node1), AsI16(fl[k].offset_links[j].node2)>>

\* Physics::get_indices
GetIndicesOf(fl) ==
  LET RECURSIVE Flat(_)
      Flat(k) ==
        IF k = 0 THEN <<>>
        ELSE Flat(k - 1)
             \o [j \in 1..(2 * Len(fl[k].offset_links)) |->
                   IndexPairAt(fl, k, (j + 1) \div 2)[2 - (j % 2)]]
  IN Flat(Len(fl))

\* Physics::num_links
NumLinks(fl) ==
  LET RECURSIVE Sum(_)
      Sum(k) == IF k = 0 THEN 0 ELSE Sum(k - 1) + Len(fl[k].links)
  IN Sum(Len(fl))

\* the scan without `*acc += x`
UnaccumulatedBreakpoints(fl) == [k \in DOMAIN fl |-> 0]

\* Physics::apply_links, the scan giving the breakpoints
Breakpoints(fl) ==
  LET RECURSIVE Acc(_)
      Acc(k) == IF k = 0 THEN 0 ELSE Acc(k - 1) + fl[k].width * fl[k].height
  IN [k \in DOMAIN fl |-> Acc(k - 1)]

\* ChunksMutIndices::new(&mut nodes, &breakpoints): chunk k is the half-open
\* range from breakpoint k to breakpoint k + 1, the last one to the end
Chunks(len, bps) ==
  [k \in DOMAIN bps |->
     [start |-> bps[k], end |-> IF k = Len(bps) THEN len ELSE bps[k + 1]]]

\* ------------------------------------------------------------- simulation
\* gravity * (dt * dt), dt given as the fraction dt[1] / dt[2]
GravityTerm(gravity, dt) ==
  <<TDiv(gravity[1] * dt[1] * dt[1], dt[2] * dt[2]),
    TDiv(gravity[2] * dt[1] * dt[1], dt[2] * dt[2])>>

\* update_pos without the filter on pinned
UpdatePosAll(ns, gravity, dt) ==
  [i \in DOMAIN ns |->
     [ns[i] EXCEPT
        !.last_pos = ns[i].pos,
        !.pos = VAdd(ns[i].pos,
                     ClampLengthMax(VAdd(VSub(ns[i].pos, ns[i].last_pos),
                                         GravityTerm(gravity, dt)), MaxStep))]]

\* Physics::update_pos
UpdatePos(ns, gravity, dt) ==
  [i \in DOMAIN ns |->
     IF ns[i].pinned THEN ns[i]
     ELSE [ns[i] EXCEPT
             !.last_pos = ns[i].pos,
             !.pos = VAdd(ns[i].pos,
                          ClampLengthMax(VAdd(VSub(ns[i].pos, ns[i].last_pos),
                                              GravityTerm(gravity, dt)), MaxStep))]]

\* apply_constraint with the sign of the correction flipped
PushOutward(c, limit) ==
  LET c1 == IF c > limit THEN c - TDiv(3 * (limit - c), 4) ELSE c
  IN IF c1 < 0 THEN c1 + TDiv(3 * c1, 4) ELSE c1

\* Physics::apply_constraint on one coordinate, factor = 0.75
PullBack(c, limit) ==
  LET c1 == IF c > limit THEN c + TDiv(3 * (limit - c), 4) ELSE c
  IN IF c1 < 0 THEN c1 - TDiv(3 * c1, 4) ELSE c1

\* Physics::apply_constraint
ApplyConstraint(ns) ==
  [i \in DOMAIN ns |->
     IF ns[i].pinned THEN ns[i]
     ELSE [ns[i] EXCEPT !.pos = <<PullBack(ns[i].pos[1], WIDTH),
                                  PullBack(ns[i].pos[2], HEIGHT)>>]]

\* apply_links, the correction diff * force of one link, with
\* force = ((resting_distance - dist) / dist * 0.5).min(0.001); when dist = 0
\* the quotient is infinite or NaN and f32::min returns 0.001
Correction(diff, resting_distance) ==
  LET dist == Length(diff)
  IN IF dist = 0 \/ 1000 * (resting_distance - dist) > 2 * dist
     THEN <<TDiv(diff[1], 1000), TDiv(diff[2], 1000)>>
     ELSE <<TDiv(diff[1] * (resting_distance - dist), 2 * dist),
            TDiv(diff[2] * (resting_distance - dist), 2 * dist)>>

\* apply_links, the body run for one link on the chunk starting at `start`
RelaxLink(ns, start, link) ==
  LET a == start + link.node1 + 1
      b == start + link.node2 + 1
      n == Correction(VSub(ns[a].pos, ns[b].pos), link.resting_distance)
      ns1 == IF ns[a].pinned THEN ns ELSE [ns EXCEPT ![a].pos = VAdd(ns[a].pos, n)]
  IN IF ns1[b].pinned THEN ns1 ELSE [ns1 EXCEPT ![b].pos = VSub(ns1[b].pos, n)]

RECURSIVE RelaxLinks(_, _, _, _)
\* the first k links of one instance, in list order
RelaxLinks(ns, start, links, k) ==
  IF k = 0 THEN ns
  ELSE RelaxLink(RelaxLinks(ns, start, links, k - 1), start, links[k])

\* Physics::apply_links with the instances' tasks run one after another
ApplyLinks(ns, fl) ==
  LET ch == Chunks(Len(ns), Breakpoints(fl))
      RECURSIVE Upto(_)
      Upto(k) ==
        IF k = 0 THEN ns
        ELSE RelaxLinks(Upto(k - 1), ch[k].start, fl[k].links, Len(fl[k].links))
  IN Upto(Len(fl))

\* Physics::step (each pass's array is built in full before the next reads it)
StepOnce(ns, fl, gravity, dt) ==
  LET integrated == UpdatePos(ns, gravity, dt) \o <<>>
      constrained == ApplyConstraint(integrated) \o <<>>
  IN ApplyLinks(constrained, fl)

RECURSIVE StepTimes(_, _, _, _, _)
\* Stage::update, the loop over SUB_STEPS; the test on Len makes each
\* iteration's array be built in full before the next iteration reads it
StepTimes(ns, fl, gravity, dt, n) ==
  IF n = 0 THEN ns
  ELSE LET next == StepOnce(ns, fl, gravity, dt) \o <<>>
       IN IF Len(next) = Len(ns) THEN StepTimes(next, fl, gravity, dt, n - 1) ELSE next

\* Physics::select_nodes, the indices in range, ascending
InRange(ns, pos) ==
  LET RECURSIVE Upto(_)
      Upto(k) ==
        IF k = 0 THEN <<>>
        ELSE IF DistanceSquared(ns[k].pos, pos) < PickRadius * PickRadius
             THEN Append(Upto(k - 1), k - 1)
             ELSE Upto(k - 1)
  IN Upto(Len(ns))

\* select_nodes without the else branch
SelectKeepStale(ns, sel, pos) ==
  IF InRange(ns, pos) # <<>> THEN InRange(ns, pos) ELSE sel

\* Physics::select_nodes: the new value of selected_nodes
SelectNodes(ns, sel, pos) ==
  IF InRange(ns, pos) # <<>> THEN InRange(ns, pos) ELSE None

SeqRange(s) == {s[k] : k \in DOMAIN s}

Selection(sel) == IF sel = None THEN {} ELSE SeqRange(sel)

\* move_selected_nodes that also resets last_pos
MoveAlsoLastPos(ns, sel, pos) ==
  [i \in DOMAIN ns |->
     IF (i - 1) \in Selection(sel)
     THEN [ns[i] EXCEPT !.pos = pos, !.last_pos = pos]
     ELSE ns[i]]

\* Physics::move_selected_nodes
MoveSelectedNodes(ns, sel, pos) ==
  [i \in DOMAIN ns |->
     IF (i - 1) \in Selection(sel) THEN [ns[i] EXCEPT !.pos = pos] ELSE ns[i]]

\* Stage::update without the test of mouse_pressed
FrameAlwaysDrags(ns, fl, sel, pressed, pos) ==
  MoveSelectedNodes(StepTimes(ns, fl, HostGravity, HostDt, SUB_STEPS), sel, pos)

\* Stage::update, the sub-steps and then the drag while the press is held
Frame(ns, fl, sel, pressed, pos) ==
  IF pressed
  THEN MoveSelectedNodes(StepTimes(ns, fl, HostGravity, HostDt, SUB_STEPS), sel, pos)
  ELSE StepTimes(ns, fl, HostGravity, HostDt, SUB_STEPS)

Op(name, arg) == [name |-> name, arg |-> arg, dt |-> <<1, 1>>]

\* ------------------------------------------------------------ the inputs
BuildLists ==
  {<<FlagParams(<<100, 100>>, s, w, h)>> : s \in {0, 40}, w \in 0..MaxW, h \in 0..MaxH}
  \cup {<<FlagParams(<<100, 100>>, 40, w1, h1), FlagParams(<<700, 100>>, 40, w2, h2)>> :
          w1 \in 1..3, h1 \in 1..2, w2 \in 1..2, h2 \in 1..2}

\* instance lists for get_indices, one of them with more than 2^15 nodes
IdxLists ==
  {fs \in BuildLists : \A k \in DOMAIN fs : fs[k].width * fs[k].height > 1}
  \cup {<<FlagParams(<<100, 100>>, 40, 1, BigHeight), FlagParams(<<700, 100>>, 40, 2, 1)>>}

DynLists ==
  {<<FlagParams(<<100, 100>>, 40, 2, 2)>>,
   <<FlagParams(<<2, 100>>, 80, 2, 1), FlagParams(<<100, 100>>, 40, 1, 3)>>}

ParLists ==
  {<<FlagParams(<<1440, 100>>, 60, 2, 1), FlagParams(<<100, 100>>, 40, 1, 3)>>,
   <<FlagParams(<<100, 100>>, 40, 2, 2), FlagParams(<<700, 100>>, 60, 2, 2)>>}

Gravities == {<<0, 0>>, <<0, 30>>}
Dts == {<<1, 1>>, <<1, 600>>}
Cursors == {<<101, 101>>, <<121, 101>>, <<43, 101>>, <<700, 700>>, <<-2, 100>>}
MousePoints == {<<602, 101>>, <<650, 120>>, <<900, 900>>}
Buttons == {"Left", "Right"}
Keys == {"N", "Space", "Escape", "Other"}

\* ------------------------------------------------------------ the states
HostIdle ==
  /\ mouse_pressed = FALSE /\ mouse_pos = <<0, 0>> /\ last_mouse_pos = <<0, 0>>
  /\ can_update = "Continue" /\ quit = FALSE

ParIdle == phase = "idle" /\ task_pc = <<>> /\ touched = <<>> /\ snapshot = <<>>

Built(fs) ==
  /\ PhysicsNew(fs, TRUE).status = "built"
  /\ status = "built" /\ flag_sizes = fs
  /\ nodes = PhysicsNew(fs, TRUE).nodes /\ flags = PhysicsNew(fs, TRUE).flags
  /\ selected_nodes = None /\ indices = <<>> /\ last_op = Op("new", <<0, 0>>)
  /\ sel_before = None /\ ops = 0

\* before Physics::new
InitBuild ==
  /\ status = "new" /\ flag_sizes = <<>> /\ nodes = <<>> /\ flags = <<>>
  /\ selected_nodes = None /\ indices = <<>> /\ last_op = Op("none", <<0, 0>>)
  /\ sel_before = None /\ ops = 0
  /\ HostIdle /\ ParIdle

\* the input of Physics::new, for get_indices
InitIdx ==
  /\ status = "new" /\ flag_sizes \in IdxLists /\ nodes = <<>> /\ flags = <<>>
  /\ selected_nodes = None /\ indices = <<>> /\ last_op = Op("none", <<0, 0>>)
  /\ sel_before = None /\ ops = 0
  /\ HostIdle /\ ParIdle

\* after Physics::new
Init == (\E fs \in DynLists : Built(fs)) /\ HostIdle /\ ParIdle

InitPar == (\E fs \in ParLists : Built(fs)) /\ HostIdle /\ ParIdle

\* after Stage::new
InitHost ==
  /\ Built(<<FlagParams(HostCorner, HostSize, HostWidth, HostHeight)>>)
  /\ HostIdle /\ ParIdle

hostVars == <<mouse_pressed, mouse_pos, last_mouse_pos, can_update, quit>>
parVars == <<phase, task_pc, touched, snapshot>>

\* ----------------------------------------------------------- the actions
\* Physics::new
Construct(fs, overflow_checks) ==
  /\ status = "new"
  /\ status' = PhysicsNew(fs, overflow_checks).status
  /\ flag_sizes' = fs
  /\ nodes' = PhysicsNew(fs, overflow_checks).nodes
  /\ flags' = PhysicsNew(fs, overflow_checks).flags
  /\ selected_nodes' = None
  /\ last_op' = Op("new", <<0, 0>>)
  /\ ops' = ops + 1
  /\ UNCHANGED <<indices, sel_before, hostVars, parVars>>

\* Physics::get_indices, called once on a built simulation
GetIndices ==
  /\ status = "built" /\ last_op.name # "get_indices"
  /\ indices' = GetIndicesOf(flags)
  /\ last_op' = Op("get_indices", <<0, 0>>)
  /\ ops' = ops + 1
  /\ UNCHANGED <<status, flag_sizes, nodes, flags, selected_nodes, sel_before,
                 hostVars, parVars>>

\* Physics::new(flag_sizes).get_indices(), of which the pair emitted for link
\* j of instance k is kept
EmitIndexPair(k, j) ==
  /\ status = "new" /\ last_op.name = "none"
  /\ ~(\E i \in DOMAIN flag_sizes :
         FlagNewPanics(flag_sizes[i].width, flag_sizes[i].height, TRUE))
  /\ indices' = IndexPairAt(BuiltFlags(flag_sizes), k, j)
  /\ last_op' = Op("get_indices", <<k, j>>)
  /\ ops' = ops + 1
  /\ UNCHANGED <<status, flag_sizes, nodes, flags, selected_nodes, sel_before,
                 hostVars, parVars>>

\* Physics::step
Step(gravity, dt) ==
  /\ status = "built" /\ ops < MaxOps
  /\ nodes' = StepOnce(nodes, flags, gravity, dt)
  /\ last_op' = [name |-> "step", arg |-> gravity, dt |-> dt]
  /\ ops' = ops + 1
  /\ UNCHANGED <<status, flag_sizes, flags, selected_nodes, indices, sel_before,
                 hostVars, parVars>>

\* Physics::select_nodes
Select(pos) ==
  /\ status = "built" /\ ops < MaxOps
  /\ selected_nodes' = SelectNodes(nodes, selected_nodes, pos)
  /\ sel_before' = selected_nodes
  /\ last_op' = Op("select", pos)
  /\ ops' = ops + 1
  /\ UNCHANGED <<status, flag_sizes, nodes, flags, indices, hostVars, parVars>>

\* Physics::move_selected_nodes
Drag(pos) ==
  /\ status = "built" /\ ops < MaxOps
  /\ nodes' = MoveSelectedNodes(nodes, selected_nodes, pos)
  /\ last_op' = Op("drag", pos)
  /\ ops' = ops + 1
  /\ UNCHANGED <<status, flag_sizes, flags, selected_nodes, indices, sel_before,
                 hostVars, parVars>>

physVars == <<status, flag_sizes, nodes, flags, selected_nodes, indices, sel_before>>

\* Physics::apply_links entered from Physics::step: update_pos and
\* apply_constraint have run, the chunks are cut and one task per instance starts
ParBegin(gravity, dt) ==
  /\ status = "built" /\ phase = "idle" /\ ops < MaxParOps
  /\ nodes' = ApplyConstraint(UpdatePos(nodes, gravity, dt))
  /\ snapshot' = nodes'
  /\ phase' = "relax"
  /\ task_pc' = [k \in DOMAIN flags |-> 0]
  /\ touched' = [k \in DOMAIN flags |-> {}]
  /\ last_op' = Op("step", gravity)
  /\ ops' = ops + 1
  /\ UNCHANGED <<status, flag_sizes, flags, selected_nodes, indices, sel_before, hostVars>>

\* the task of instance k applies its next link to its chunk
ParLink(k) ==
  /\ phase = "relax" /\ task_pc[k] < Len(flags[k].links)
  /\ LET link == flags[k].links[task_pc[k] + 1]
         start == Chunks(Len(nodes), Breakpoints(flags))[k].start
     IN /\ nodes' = RelaxLink(nodes, start, link)
        /\ touched' = [touched EXCEPT ![k] = @ \cup {start + link.node1, start + link.node2}]
  /\ task_pc' = [task_pc EXCEPT ![k] = @ + 1]
  /\ UNCHANGED <<status, flag_sizes, flags, selected_nodes, indices, sel_before,
                 last_op, ops, phase, snapshot, hostVars>>

\* for_each returns once every task has finished
ParJoin ==
  /\ phase = "relax"
  /\ \A k \in DOMAIN flags : task_pc[k] = Len(flags[k].links)
  /\ phase' = "idle"
  /\ last_op' = Op("joined", last_op.arg)
  /\ UNCHANGED <<physVars, ops, task_pc, touched, snapshot, hostVars>>

\* Stage::update
Update ==
  /\ status = "built" /\ ops < MaxHostOps
  /\ ops' = ops + 1
  /\ \/ /\ can_update = "Stop"
        /\ last_op' = Op("update_stopped", mouse_pos)
        /\ UNCHANGED <<nodes, can_update, quit>>
     \/ /\ can_update = "Quit"
        /\ quit' = TRUE
        /\ last_op' = Op("update_quit", mouse_pos)
        /\ UNCHANGED <<nodes, can_update>>
     \/ /\ can_update \in {"Continue", "OneFrame"}
        /\ nodes' = Frame(nodes, flags, selected_nodes, mouse_pressed, mouse_pos)
        /\ can_update' = IF can_update = "OneFrame" THEN "Stop" ELSE can_update
        /\ last_op' = Op("update", mouse_pos)
        /\ UNCHANGED quit
  /\ UNCHANGED <<status, flag_sizes, flags, selected_nodes, indices, sel_before,
                 mouse_pressed, mouse_pos, last_mouse_pos, parVars>>

\* Stage::mouse_motion_event
MouseMotion(p) ==
  /\ status = "built" /\ ops < MaxHostOps
  /\ last_mouse_pos' = mouse_pos
  /\ mouse_pos' = p
  /\ last_op' = Op("mouse_motion", p)
  /\ ops' = ops + 1
  /\ UNCHANGED <<physVars, mouse_pressed, can_update, quit, parVars>>

\* Stage::mouse_button_down_event
MouseDown(button, p) ==
  /\ status = "built" /\ ops < MaxHostOps
  /\ ops' = ops + 1
  /\ IF button = "Left"
     THEN /\ last_mouse_pos' = mouse_pos
          /\ mouse_pos' = p
          /\ selected_nodes' = SelectNodes(nodes, selected_nodes, p)
          /\ sel_before' = selected_nodes
          /\ mouse_pressed' = TRUE
          /\ last_op' = Op("mouse_down_left", p)
     ELSE /\ last_op' = Op("mouse_down_other", p)
          /\ UNCHANGED <<last_mouse_pos, mouse_pos, selected_nodes, sel_before, mouse_pressed>>
  /\ UNCHANGED <<status, flag_sizes, nodes, flags, indices, can_update, quit, parVars>>

\* Stage::mouse_button_up_event
MouseUp(button) ==
  /\ status = "built" /\ ops < MaxHostOps
  /\ ops' = ops + 1
  /\ mouse_pressed' = IF button = "Left" THEN FALSE ELSE mouse_pressed
  /\ last_op' = Op("mouse_up", mouse_pos)
  /\ UNCHANGED <<physVars, mouse_pos, last_mouse_pos, can_update, quit, parVars>>

\* Stage::key_down_event
KeyDown(keycode) ==
  /\ status = "built" /\ ops < MaxHostOps
  /\ ops' = ops + 1
  /\ can_update' =
       CASE keycode = "N" -> "OneFrame"
         [] keycode = "Space" -> IF can_update = "Continue" THEN "Stop" ELSE "Continue"
         [] keycode = "Escape" -> "Quit"
         [] OTHER -> can_update
  /\ last_op' = Op("key_down", mouse_pos)
  /\ UNCHANGED <<physVars, mouse_pressed, mouse_pos, last_mouse_pos, quit, parVars>>

NextPar ==
  \/ \E g \in Gravities, dt \in Dts : ParBegin(g, dt)
  \/ \E k \in DOMAIN flags : ParLink(k)
  \/ ParJoin

NextHost ==
  \/ Update
  \/ \E p \in MousePoints : MouseMotion(p)
  \/ \E b \in Buttons, p \in MousePoints : MouseDown(b, p)
  \/ \E b \in Buttons : MouseUp(b)
  \/ \E key \in Keys : KeyDown(key)

NextBuild ==
  \/ \E fs \in BuildLists, oc \in BOOLEAN : Construct(fs, oc)
  \/ GetIndices

Next ==
  \/ \E g \in Gravities, dt \in Dts : Step(g, dt)
  \/ \E p \in Cursors : Select(p)
  \/ \E p \in Cursors : Drag(p)

\* the number of links Flag::new gives a width x height instance
LinkCount(width, height) ==
  height * WrappingSubOne(width) + width * WrappingSubOne(height)

NextIdx ==
  \E k \in DOMAIN flag_sizes :
    \E j \in {1, LinkCount(flag_sizes[k].width, flag_sizes[k].height)} :
      EmitIndexPair(k, j)

\* ------------------------------------------------------------ the claims
NodeIds == 0..(Len(nodes) - 1)

\* C1: a call to step leaves the position of every pinned particle as it was,
\* for any gravity and dt, in any state that step, select and drag can reach.
C1_PinnedFixedByStep ==
  [][last_op'.name = "step" =>
       \A i \in DOMAIN nodes : nodes[i].pinned => nodes'[i].pos = nodes[i].pos]_vars

\* a step has run while a pinned particle sat where a drag had put it, and an
\* unpinned particle moved
C1_Witness ==
  /\ last_op.name = "step"
  /\ \E i \in DOMAIN nodes : nodes[i].pinned /\ nodes[i].pos # nodes[i].last_pos
  /\ \E j \in DOMAIN nodes : ~nodes[j].pinned /\ nodes[j].pos # nodes[j].last_pos

\* C2: the ranges the solver cuts from the instances' particle counts are
\* [sum of the counts before k, that sum + width_k * height_k): pairwise
\* disjoint, contiguous in order, covering the node array, and starting at the
\* offsets used at construction.
C2_Partition ==
  status = "built" =>
    LET ch == Chunks(Len(nodes), Breakpoints(flags))
        count(k) == flags[k].width * flags[k].height
        range(k) == ch[k].start..(ch[k].end - 1)
    IN /\ DOMAIN ch = DOMAIN flags
       /\ ch[1].start = 0
       /\ \A k \in DOMAIN ch : ch[k].end = ch[k].start + count(k)
       /\ \A k \in DOMAIN ch : k < Len(ch) => ch[k + 1].start = ch[k].end
       /\ \A k, l \in DOMAIN ch : k # l => range(k) \cap range(l) = {}
       /\ UNION {range(k) : k \in DOMAIN ch} = NodeIds
       /\ Breakpoints(flags) = Offsets(flag_sizes)

\* instances of 6 and 4 particles: 10 nodes, ranges [0,6) and [6,10)
C2_Witness ==
  /\ status = "built" /\ Len(flags) = 2 /\ Len(nodes) = 10
  /\ flags[1].width * flags[1].height = 6 /\ flags[2].width * flags[2].height = 4
  /\ Chunks(Len(nodes), Breakpoints(flags))
       = <<[start |-> 0, end |-> 6], [start |-> 6, end |-> 10]>>

\* C3: an instance of width w >= 1 and height h >= 1 gets one link for every
\* horizontally or vertically adjacent pair of its grid, each once, and no
\* other link: w*(h-1) + h*(w-1) links, indices distinct and below w*h.
C3_GridLinks ==
  status = "built" =>
    \A k \in DOMAIN flags :
      LET w == flags[k].width
          h == flags[k].height
          ls == flags[k].links
          horizontal(a, b) == b = a + 1 /\ a \div w = b \div w
          vertical(a, b) == b = a + w
      IN (w >= 1 /\ h >= 1) =>
           /\ Len(ls) = w * (h - 1) + h * (w - 1)
           /\ Len(flags[k].offset_links) = Len(ls)
           /\ \A i \in DOMAIN ls :
                /\ ls[i].node1 # ls[i].node2
                /\ ls[i].node1 \in 0..(w * h - 1) /\ ls[i].node2 \in 0..(w * h - 1)
                /\ horizontal(ls[i].node1, ls[i].node2) \/ vertical(ls[i].node1, ls[i].node2)
           /\ \A i, j \in DOMAIN ls :
                i # j => <<ls[i].node1, ls[i].node2>> # <<ls[j].node1, ls[j].node2>>
           /\ \A a, b \in 0..(w * h - 1) :
                horizontal(a, b) \/ vertical(a, b) =>
                  \E i \in DOMAIN ls : ls[i].node1 = a /\ ls[i].node2 = b

\* width 4, height 3: 12 particles and 17 links
C3_Witness ==
  /\ status = "built" /\ Len(flags) = 1 /\ Len(nodes) = 12
  /\ flags[1].width = 4 /\ flags[1].height = 3
  /\ Len(flags[1].links) = 17 /\ NumLinks(flags) = 17

\* C4: select with no particle within the pick radius leaves no selection, and
\* a drag made while there is no selection changes no particle.
C4_EmptyPickClears ==
  [][/\ (last_op'.name = "select"
          /\ \A i \in DOMAIN nodes :
               DistanceSquared(nodes[i].pos, last_op'.arg) >= PickRadius * PickRadius)
         => selected_nodes' = None
     /\ (last_op'.name = "drag" /\ selected_nodes = None) => nodes' = nodes]_vars

\* a selection existed, a select that hit nothing cleared it, then drag ran
C4_Witness ==
  /\ last_op.name = "drag" /\ selected_nodes = None /\ sel_before # None

\* C5: with a selection, drag sets the position of every selected particle to
\* the cursor, pinned or not, and changes nothing else.
C5_DragFrame ==
  [][(last_op'.name = "drag" /\ selected_nodes # None) =>
       /\ \A i \in DOMAIN nodes :
            IF (i - 1) \in SeqRange(selected_nodes)
            THEN /\ nodes'[i].pos = last_op'.arg
                 /\ nodes'[i].last_pos = nodes[i].last_pos
                 /\ nodes'[i].pinned = nodes[i].pinned
            ELSE nodes'[i] = nodes[i]
       /\ DOMAIN nodes' = DOMAIN nodes
       /\ flags' = flags
       /\ selected_nodes' = selected_nodes]_vars

\* a pinned selected particle has been dragged away from where it was
C5_Witness ==
  /\ last_op.name = "drag" /\ selected_nodes # None
  /\ \E i \in DOMAIN nodes :
       /\ (i - 1) \in SeqRange(selected_nodes) /\ nodes[i].pinned
       /\ nodes[i].pos = last_op.arg /\ nodes[i].last_pos # last_op.arg

\* width or height zero, or links of length zero
Misconfigured(fp) ==
  \/ fp.width = 0
  \/ fp.height = 0
  \/ fp.size = 0 /\ (fp.width >= 2 \/ fp.height >= 2)

\* C6: Physics::new never returns a simulation for a list holding a
\* misconfigured instance (width or height zero, or zero-length links).
C6_RefusesMisconfigured ==
  (\E k \in DOMAIN flag_sizes : Misconfigured(flag_sizes[k])) => status # "built"

\* C7: the pair get_indices emits for a link is the link's local indices plus
\* the instance's offset, inside the instance's range of the node array.
C7_IndicesInRange ==
  last_op.name = "get_indices" =>
    LET k == last_op.arg[1]
        j == last_op.arg[2]
        offset == Offsets(flag_sizes)[k]
        count == flag_sizes[k].width * flag_sizes[k].height
        local == PairAt(flag_sizes[k].width, flag_sizes[k].height, j)
    IN /\ indices = <<local[1] + offset, local[2] + offset>>
       /\ indices[1] \in offset..(offset + count - 1)
       /\ indices[2] \in offset..(offset + count - 1)

\* how far a coordinate lies outside [0, limit]
Over(c, limit) == IF c > limit THEN c - limit ELSE IF c < 0 THEN -c ELSE 0

\* the squared distance of a position from the simulation area
OutsideSquared(pos) ==
  Over(pos[1], WIDTH) * Over(pos[1], WIDTH) + Over(pos[2], HEIGHT) * Over(pos[2], HEIGHT)

\* C8 as stated: a step with zero gravity never leaves an unpinned particle that
\* was outside the area farther outside than it was.
C8_OvershootNeverGrows ==
  [][(last_op'.name = "step" /\ last_op'.arg = <<0, 0>>) =>
       \A i \in DOMAIN nodes :
         (~nodes[i].pinned /\ OutsideSquared(nodes[i].pos) > 0) =>
           OutsideSquared(nodes'[i].pos) <= OutsideSquared(nodes[i].pos)]_vars

\* C8 as amended: within a step, the boundary pass leaves no coordinate of an
\* unpinned particle farther outside the area than integration left it.
C8_BoundaryPassShrinks ==
  [][last_op'.name = "step" =>
       LET integrated == UpdatePos(nodes, last_op'.arg, last_op'.dt)
           constrained == ApplyConstraint(integrated)
       IN \A i \in DOMAIN nodes :
            ~nodes[i].pinned =>
              /\ Over(constrained[i].pos[1], WIDTH) <= Over(integrated[i].pos[1], WIDTH)
              /\ Over(constrained[i].pos[2], HEIGHT) <= Over(integrated[i].pos[2], HEIGHT)
              /\ Over(integrated[i].pos[1], WIDTH) > 1 =>
                   Over(constrained[i].pos[1], WIDTH) < Over(integrated[i].pos[1], WIDTH)]_vars

\* a zero-gravity step has run on an unpinned particle that was outside the area
C8_Witness ==
  /\ last_op.name = "step" /\ last_op.arg = <<0, 0>>
  /\ \E i \in DOMAIN nodes :
       ~nodes[i].pinned /\ OutsideSquared(nodes[i].last_pos) > 0

\* C9: a task touches only particles of its own instance's range, no two tasks
\* touch the same particle, and after the join the node array is the one that
\* relaxing the instances one after another, links in list order, gives.
C9_TasksDisjoint ==
  /\ \A k \in DOMAIN touched :
       touched[k] \subseteq
         Offsets(flag_sizes)[k]
           ..(Offsets(flag_sizes)[k] + flags[k].width * flags[k].height - 1)
  /\ \A k, l \in DOMAIN touched : k # l => touched[k] \cap touched[l] = {}
  /\ last_op.name = "joined" => nodes = ApplyLinks(snapshot, flags)

\* two tasks have run to the join and each has moved a particle of its range
C9_Witness ==
  /\ last_op.name = "joined" /\ Len(flags) = 2
  /\ \A k \in DOMAIN flags :
       \E i \in touched[k] : nodes[i + 1].pos # snapshot[i + 1].pos

\* C10: a frame runs the sub-steps and then drags the selection to the cursor
\* only while the press is held; with the press released a frame is the
\* sub-steps alone; and the selection a left press leaves holds only particles
\* picked by that press.
C10_DragOnlyWhilePressed ==
  [][/\ (last_op'.name = "update" /\ ~mouse_pressed) =>
          nodes' = StepTimes(nodes, flags, HostGravity, HostDt, SUB_STEPS)
     /\ (last_op'.name = "update" /\ mouse_pressed) =>
          \A i \in DOMAIN nodes :
            IF (i - 1) \in Selection(selected_nodes)
            THEN nodes'[i].pos = mouse_pos
            ELSE nodes'[i] = StepTimes(nodes, flags, HostGravity, HostDt, SUB_STEPS)[i]
     /\ last_op'.name = "mouse_down_left" =>
          /\ mouse_pressed'
          /\ \A i \in Selection(selected_nodes') :
               DistanceSquared(nodes[i + 1].pos, mouse_pos') < PickRadius * PickRadius]_vars

\* a frame has run after a release while the selection of the press is still
\* stored, and the selected particle was not moved to the cursor
C10_Witness ==
  /\ last_op.name = "update" /\ ~mouse_pressed /\ selected_nodes # None
  /\ \E i \in Selection(selected_nodes) : nodes[i + 1].pos # mouse_pos

SpecIdx == InitIdx /\ [][NextIdx]_vars
SpecBuild == InitBuild /\ [][NextBuild]_vars
Spec == Init /\ [][Next]_vars
SpecPar == InitPar /\ [][NextPar]_vars
SpecHost == InitHost /\ [][NextHost]_vars
====
